---- MODULE Spec2Model ----
(***************************************************************************)
(* Model of the LeadSight sales-agent server (src/server.py) together with *)
(* the per-company crawl it calls (src/app.py).                            *)
(*                                                                         *)
(* The Flask server runs with threaded=True: every POST /upload is served  *)
(* on its own thread, and every accepted upload starts one daemon thread   *)
(* that runs run_scraper_thread.  All of them share the module-level dict  *)
(* `job` and the file output.xlsx.  A step of the model is one access to   *)
(* that shared state (one dict read or write, one list append, one file    *)
(* write) together with the thread-local code that precedes it.            *)
(*                                                                         *)
(* Three specifications share the variables:                               *)
(*   Spec           - the uploads and the workers, each crawl one step;    *)
(*   SpecCrawl      - one scrape_company call after the other, step by     *)
(*                    step, the server at rest;                            *)
(*   SpecStream(Fair) - the uploads and the workers of tables without rows *)
(*                    together with one client of GET /progress.           *)
(***************************************************************************)
EXTENDS Integers, Sequences, FiniteSets, TLC

\* Bounds of the model.
MaxRequests == 2        \* POST /upload requests that arrive
MaxRows == 2            \* rows of all the uploaded files together

Null == "None"

Requests == 1 .. MaxRequests

\* app.py:42-58
OUTPUT_COLUMNS ==
  << "Company Name", "Website", "Founded Info", "About Us",
     "company_overview", "business_model", "products_services",
     "operational_footprint", "ai_ml_opportunity_map", "leadership",
     "strategic_developments", "strategic_outlook", "executive_brief",
     "Email" >>

Columns == { OUTPUT_COLUMNS[i] : i \in 1 .. Len(OUTPUT_COLUMNS) }

\* app.py:237-247, the nine keys copied from the parsed report
EnrichmentKeys ==
  { "company_overview", "business_model", "products_services",
    "operational_footprint", "ai_ml_opportunity_map", "leadership",
    "strategic_developments", "strategic_outlook", "executive_brief" }

\* Row i of an uploaded table: its company_name and website cells.
RowNames == << "Acme", "Bolt", "Core", "Dyne" >>
RowSites == << "https://acme.test", "https://bolt.test",
               "https://core.test", "https://dyne.test" >>

\* server.py:302: the identifier drawn for request r (uuid4, 8 hex digits).
JobIds == << "a3f1c2d4", "b7e09a15", "c41d88f0", "d90b62e7" >>

company_name(i) == RowNames[i]
website(i) == RowSites[i]

(***************************************************************************)
(* Uploaded files.  present: the request has a "file" part; ext: the       *)
(* filename's extension; readable: pandas can parse the content in the     *)
(* format the extension names; cols: both required columns are there;      *)
(* n: number of rows; blank: the website cell of its rows is empty.        *)
(***************************************************************************)
UploadFiles ==
  { [present |-> TRUE, ext |-> "xlsx", readable |-> TRUE, cols |-> TRUE, n |-> k,
     blank |-> FALSE] : k \in 0 .. MaxRows }
  \cup
  { [present |-> TRUE,  ext |-> "csv",  readable |-> TRUE,  cols |-> TRUE,  n |-> 1,
     blank |-> FALSE],
    [present |-> TRUE,  ext |-> "xlsx", readable |-> TRUE,  cols |-> TRUE,  n |-> 1,
     blank |-> TRUE],
    [present |-> TRUE,  ext |-> "xlsx", readable |-> TRUE,  cols |-> FALSE, n |-> 1,
     blank |-> FALSE],
    [present |-> TRUE,  ext |-> "xlsx", readable |-> FALSE, cols |-> FALSE, n |-> 0,
     blank |-> FALSE],
    [present |-> TRUE,  ext |-> "txt",  readable |-> TRUE,  cols |-> TRUE,  n |-> 1,
     blank |-> FALSE],
    [present |-> FALSE, ext |-> "",     readable |-> FALSE, cols |-> FALSE, n |-> 0,
     blank |-> FALSE] }

NoFile ==
  [present |-> FALSE, ext |-> "", readable |-> FALSE, cols |-> FALSE, n |-> 0,
   blank |-> FALSE]

\* server.py:229, row["website"] of row i of the table read from file f
RowWebsite(f, i) == IF f.blank THEN "" ELSE website(i)

VARIABLES
  job,        \* server.py:56-66, the global job dict
  req,        \* the threads serving POST /upload, one per request
  worker,     \* the threads running run_scraper_thread, one per accepted upload
  outFile,    \* output.xlsx: whether it exists, and the rows of its table
  scrape,     \* app.py:94-271, the frame of one scrape_company call
  web,        \* what that call meets: the browser, the site, the LLM service
  stream      \* server.py:337-358, the generator of one GET /progress

vars == << job, req, worker, outFile, scrape, web, stream >>

\* server.py:56-66
JobInit ==
  [ id |-> Null, status |-> "idle", total |-> 0, current |-> 0,
    current_company |-> "", current_step |-> "",
    results |-> << >>, events |-> << >>, error |-> Null ]

ReqInit == [ pc |-> "new", file |-> NoFile, job_id |-> Null, resp |-> 0 ]

WorkerInit ==
  [ pc |-> "none", input |-> NoFile, total |-> 0, idx |-> 0,
    result |-> Null, crawl |-> "", saved |-> FALSE, e |-> Null ]

\* server.py:69-75.  The timestamp is left out: nothing reads it.
push_event(events, event_type, data) ==
  Append(events, [ type |-> event_type, data |-> data ])

(***************************************************************************)
(* The per-company crawl, app.py:94-271.  env is what the browser and the  *)
(* enrichment service answer during one crawl:                             *)
(*   fail   - the first call that raises outside the inner try blocks      *)
(*            ("new_page" 118, "goto" 121, "inner_text" 141,               *)
(*            "links_count" 148), or "none";                               *)
(*   found  - the aggregate text matches the three extraction patterns;    *)
(*   report - preprocess_about_with_llm returned a JSON object.            *)
(* The answers enumerated are the failures and the crawl in which          *)
(* everything is found.                                                    *)
(***************************************************************************)
CrawlFailures == { "new_page", "goto", "inner_text", "links_count" }

CrawlEnvs ==
  { [ fail |-> f, found |-> FALSE, report |-> FALSE ] : f \in CrawlFailures }
  \cup
  { [ fail |-> "none", found |-> TRUE, report |-> TRUE ] }

\* app.py:99-115
InitialResult(name, site) ==
  [ c \in Columns |->
      IF c = "Company Name" THEN name
      ELSE IF c = "Website" THEN site
      ELSE Null ]

\* app.py:213-217
Extracted(result, env) ==
  [ c \in Columns |->
      IF c = "Founded Info" THEN (IF env.found THEN "Founded in 1998" ELSE Null)
      ELSE IF c = "About Us" THEN (IF env.found THEN "About us" ELSE Null)
      ELSE IF c = "Email" THEN (IF env.found THEN "info@example.com" ELSE Null)
      ELSE result[c] ]

\* app.py:222-259
Enriched(result, env) ==
  [ c \in Columns |->
      IF c \in EnrichmentKeys /\ env.report THEN "report" ELSE result[c] ]

\* app.py:94-271: the except clause of line 261 leaves result as initialised.
scrape_company(name, site, env) ==
  IF env.fail \in CrawlFailures
    THEN InitialResult(name, site)
    ELSE Enriched(Extracted(InitialResult(name, site), env), env)

\* How the crawl ended: in the except clause of app.py:261 or past line 259.
CrawlEnd(env) ==
  IF env.fail \in CrawlFailures THEN "failed" ELSE "complete"

(***************************************************************************)
(* What one scrape_company call works on.  A string the code searches is   *)
(* a sequence of tokens, and Python's `x in y` on strings is Contains(y,   *)
(* x).  A URL is held parsed, as urlparse gives it: the tokens of its host *)
(* and the tokens of its path.  The body text of the page at URL u is      *)
(* written u, so all_text is the sequence of the bodies joined so far.     *)
(***************************************************************************)
MaxAnchors == 4         \* <a> elements of a homepage

\* app.py:188, candidate_links[:3]
TraversalCap == 3

\* app.py:33-37: two of the ten keywords, the others score alike.
IMPORTANT_KEYWORDS == << "about", "company" >>

Min(a, b) == IF a <= b THEN a ELSE b

\* Python: t in s
Contains(s, t) ==
  \E i \in 0 .. (Len(s) - Len(t)) : SubSeq(s, i + 1, i + Len(t)) = t

\* Python: s.lower()
lower(s) ==
  [ i \in 1 .. Len(s) |->
      IF s[i] = "About" THEN "about"
      ELSE IF s[i] = "Company" THEN "company"
      ELSE s[i] ]

Url(host, path) == [ host |-> host, path |-> path ]

\* The URL as the string that line 163 and line 171 search.
UrlString(u) == << "https://" >> \o u.host \o u.path

\* urlparse(website(1)): the target of the crawl, "https://acme.test"
Target == Url(<< "acme.test" >>, << >>)

\* app.py:146, urlparse(website).netloc
netloc(u) == u.host

\* An href attribute: absent, absolute, or a path relative to the site root
\* (the empty path being the empty string).
NoHref == [ none |-> TRUE, abs |-> FALSE, host |-> << >>, path |-> << >> ]
Href(abs, host, path) == [ none |-> FALSE, abs |-> abs, host |-> host, path |-> path ]

\* app.py:160, urljoin(website, href)
urljoin(base, href) ==
  IF href.abs THEN Url(href.host, href.path) ELSE Url(base.host, href.path)

\* An <a> element: its href, its visible text, and whether reading it
\* raises (the element is detached from the document).
Anchor(href, text, detached) == [ href |-> href, text |-> text, detached |-> detached ]

AnchorKinds ==
  { Anchor(Href(FALSE, << >>, << "/", "about" >>), << "About" >>, FALSE),
    Anchor(Href(FALSE, << >>, << "/", "about" >>), << "more" >>, FALSE),
    Anchor(Href(FALSE, << >>, << "/", "company" >>), << >>, FALSE),
    Anchor(Href(FALSE, << >>, << "/", "about", "/", "company" >>), << "About" >>, FALSE),
    Anchor(Href(TRUE, << "acme.test" >>, << >>), << "Company" >>, FALSE),
    Anchor(Href(TRUE, << "evil.test" >>, << "/", "about" >>), << "About" >>, FALSE),
    Anchor(Href(TRUE, << "evil.test" >>, << "/", "acme.test", "/", "about" >>),
           << "more" >>, FALSE),
    Anchor(NoHref, << "About" >>, FALSE),
    Anchor(Href(FALSE, << >>, << "/", "about" >>), << "About" >>, TRUE) }

AnchorLists == UNION { [ 1 .. n -> AnchorKinds ] : n \in 0 .. MaxAnchors }

\* app.py:166-172
RECURSIVE KeywordScore(_, _, _)
KeywordScore(k, link_text, url_text) ==
  IF k = 0 THEN 0
  ELSE (IF Contains(link_text, << IMPORTANT_KEYWORDS[k] >>) THEN 2 ELSE 0)
       + (IF Contains(url_text, << IMPORTANT_KEYWORDS[k] >>) THEN 3 ELSE 0)
       + KeywordScore(k - 1, link_text, url_text)

\* app.py:153-178, one pass of the loop over the anchors
LinkStep(candidates, a) ==
  IF a.detached THEN candidates
  ELSE IF a.href.none \/ (~ a.href.abs /\ a.href.path = << >>) THEN candidates
  ELSE LET full_url == urljoin(Target, a.href)
           score == KeywordScore(Len(IMPORTANT_KEYWORDS), lower(a.text),
                                 lower(UrlString(full_url)))
       IN  IF ~ Contains(UrlString(full_url), netloc(Target)) THEN candidates
           ELSE IF score > 0
             THEN Append(candidates, [ url |-> full_url, score |-> score ])
             ELSE candidates

\* One insertion of a stable sort by descending score.
InsertByScore(ranked, x) ==
  LET n == Cardinality({ i \in 1 .. Len(ranked) : ranked[i].score >= x.score })
  IN  SubSeq(ranked, 1, n) \o << x >> \o SubSeq(ranked, n + 1, Len(ranked))

\* app.py:181, sorted(candidate_links, key=lambda x: x[1], reverse=True)
RECURSIVE sorted(_)
sorted(links) ==
  IF links = << >> THEN << >>
  ELSE InsertByScore(sorted(SubSeq(links, 1, Len(links) - 1)), links[Len(links)])

\* The three extraction patterns of app.py:65-87 match the body of every
\* page whose path has "about", and no other body.
Found(all_text) ==
  \E i \in 1 .. Len(all_text) : Contains(all_text[i].path, << "about" >>)

\* What the LLM service does with a request that reaches it.
LlmAnswers == { "unreachable", "http_error", "empty", "malformed", "array", "object" }

\* llm_utils.py:137-167: the content returned for an answer of the service
Content(answer) ==
  IF answer = "object" THEN "{company_overview: ...}"
  ELSE IF answer = "array" THEN "[1]"
  ELSE IF answer = "malformed" THEN "Here is the report"
  ELSE Null

\* app.py:229-236: json.loads, and the type of what it returns
json_loads(raw_json) ==
  IF raw_json = "{company_overview: ...}" THEN "dict"
  ELSE IF raw_json = "[1]" THEN "list"
  ELSE "JSONDecodeError"

\* app.py:98-115: the frame when the call starts
ScrapeInit ==
  [ pc |-> "new_page", page |-> FALSE,
    result |-> InitialResult(company_name(1), website(1)),
    all_text |-> << >>, link_count |-> 0, i |-> 0, candidate_links |-> << >>,
    visited |-> {}, k |-> 0, raw_json |-> Null, fail |-> "none", end |-> "" ]

\* The world of the call: whether the LLM is configured, the anchors of the
\* page shown, pages whose close was not attempted yet, and for this call the
\* pages opened, the close attempts, the sub-page visits and the LLM posts.
WebInit(configured) ==
  [ configured |-> configured, dom |-> << >>, unclosed |-> 0, opened |-> 0,
    closes |-> 0, close_failed |-> FALSE, visits |-> << >>, posts |-> 0,
    llm |-> "none" ]

\* server.py:337-341: no request for /progress has arrived
StreamInit == [ pc |-> "closed", last_idx |-> 0, sent |-> << >> ]

Init ==
  /\ job = JobInit
  /\ req = [ r \in Requests |-> ReqInit ]
  /\ worker = [ r \in Requests |-> WorkerInit ]
  /\ outFile = [ exists |-> FALSE, rows |-> << >> ]
  /\ scrape = ScrapeInit
  /\ web = WebInit(FALSE)
  /\ stream = StreamInit

(***************************************************************************)
(* POST /upload, server.py:288-334.                                        *)
(***************************************************************************)
RECURSIVE SumRows(_)
SumRows(k) == IF k = 0 THEN 0 ELSE req[k].file.n + SumRows(k - 1)

\* Rows of the files uploaded so far.
RowsUploaded == SumRows(MaxRequests)

Respond(r, code) ==
  req' = [ req EXCEPT ![r] = [ @ EXCEPT !.pc = "ret", !.resp = code ] ]

\* server.py:298
AcceptedExt == { "xlsx", "xls", "csv" }

\* server.py:294-315: the request is well-formed and its file can be read.
ValidUpload(f) ==
  /\ f.present
  /\ f.ext \in AcceptedExt
  /\ f.readable
  /\ f.cols

\* UploadCheck without the status check of line 291.
UploadCheckNoConflict(r) ==
  /\ req[r].pc = "new"
  /\ r > 1 => req[r - 1].pc # "new"
  /\ \E f \in UploadFiles :
       /\ f.n + RowsUploaded <= MaxRows
       /\ IF ValidUpload(f)
            THEN req' = [ req EXCEPT ![r] =
                   [ @ EXCEPT !.pc = "reset", !.file = f, !.job_id = JobIds[r] ] ]
            ELSE req' = [ req EXCEPT ![r] =
                   [ @ EXCEPT !.pc = "ret", !.file = f, !.resp = 400 ] ]
  /\ UNCHANGED << job, worker, outFile >>
  /\ UNCHANGED << scrape, web, stream >>

\* server.py:291-315: the status check, then the checks of the file, which
\* touch only the request and the file it saved under its own name.  The
\* job identifier (uuid4, line 302) is modelled as one fresh value per request.
UploadCheck(r) ==
  /\ req[r].pc = "new"
  /\ r > 1 => req[r - 1].pc # "new"
  /\ IF job.status = "running"
       THEN Respond(r, 409)
       ELSE \E f \in UploadFiles :
              /\ f.n + RowsUploaded <= MaxRows
              /\ IF ValidUpload(f)
                   THEN req' = [ req EXCEPT ![r] =
                          [ @ EXCEPT !.pc = "reset", !.file = f, !.job_id = JobIds[r] ] ]
                   ELSE req' = [ req EXCEPT ![r] =
                          [ @ EXCEPT !.pc = "ret", !.file = f, !.resp = 400 ] ]
  /\ UNCHANGED << job, worker, outFile >>
  /\ UNCHANGED << scrape, web, stream >>

\* ResetJob without the "events": [] entry of line 326.
ResetJobKeepsEvents(job_id) ==
  [ id |-> job_id, status |-> "running", total |-> 0, current |-> 0,
    current_company |-> "", current_step |-> "",
    results |-> << >>, events |-> job.events, error |-> Null ]

\* server.py:317-328
ResetJob(job_id) ==
  [ id |-> job_id, status |-> "running", total |-> 0, current |-> 0,
    current_company |-> "", current_step |-> "",
    results |-> << >>, events |-> << >>, error |-> Null ]

\* server.py:317-334: job.update, then the worker thread is started.
UploadAccept(r) ==
  /\ req[r].pc = "reset"
  /\ job' = ResetJob(req[r].job_id)
  /\ worker' = [ worker EXCEPT ![r] =
                   [ WorkerInit EXCEPT !.pc = "read_excel", !.input = req[r].file ] ]
  /\ Respond(r, 200)
  /\ UNCHANGED outFile
  /\ UNCHANGED << scrape, web, stream >>

(***************************************************************************)
(* run_scraper_thread / run_scraper_async, server.py:214-275.              *)
(***************************************************************************)
Goto(r, label) ==
  worker' = [ worker EXCEPT ![r] = [ @ EXCEPT !.pc = label ] ]

Raise(r, message) ==
  worker' = [ worker EXCEPT ![r] = [ @ EXCEPT !.pc = "exc_status", !.e = message ] ]

\* server.py:217: pd.read_excel cannot read the content of a .csv file.
ExcelReadable(f) == f.readable /\ f.ext \in { "xlsx", "xls" }

\* server.py:217-219
ReadInput(r) ==
  /\ worker[r].pc = "read_excel"
  /\ IF ExcelReadable(worker[r].input)
       THEN /\ job' = [ job EXCEPT !.total = worker[r].input.n ]
            /\ worker' = [ worker EXCEPT ![r] =
                 [ @ EXCEPT !.pc = "set_results", !.total = worker[r].input.n ] ]
       ELSE /\ Raise(r, "read_excel failed")
            /\ UNCHANGED job
  /\ UNCHANGED << req, outFile >>
  /\ UNCHANGED << scrape, web, stream >>

\* server.py:220
SetResults(r) ==
  /\ worker[r].pc = "set_results"
  /\ job' = [ job EXCEPT !.results = << >> ]
  /\ Goto(r, "push_start")
  /\ UNCHANGED << req, outFile >>
  /\ UNCHANGED << scrape, web, stream >>

\* server.py:222
PushStart(r) ==
  /\ worker[r].pc = "push_start"
  /\ job' = [ job EXCEPT !.events =
                push_event(job.events, "start", [ total |-> worker[r].total ]) ]
  /\ Goto(r, "launch")
  /\ UNCHANGED << req, outFile >>
  /\ UNCHANGED << scrape, web, stream >>

\* server.py:224-225: starting playwright or the browser may raise.
Launch(r) ==
  /\ worker[r].pc = "launch"
  /\ \/ Goto(r, "loop")
     \/ Raise(r, "launch failed")
  /\ UNCHANGED << job, req, outFile >>
  /\ UNCHANGED << scrape, web, stream >>

\* server.py:227-231: the next row, if there is one.
SetCurrent(r) ==
  /\ worker[r].pc = "loop"
  /\ worker[r].idx < worker[r].total
  /\ job' = [ job EXCEPT !.current = worker[r].idx + 1 ]
  /\ Goto(r, "set_company")
  /\ UNCHANGED << req, outFile >>
  /\ UNCHANGED << scrape, web, stream >>

\* server.py:232
SetCompany(r) ==
  /\ worker[r].pc = "set_company"
  /\ job' = [ job EXCEPT !.current_company = company_name(worker[r].idx + 1) ]
  /\ Goto(r, "push_company_start")
  /\ UNCHANGED << req, outFile >>
  /\ UNCHANGED << scrape, web, stream >>

\* server.py:233-238
PushCompanyStart(r) ==
  /\ worker[r].pc = "push_company_start"
  /\ job' = [ job EXCEPT !.events =
                push_event(job.events, "company_start",
                  [ index |-> worker[r].idx + 1, total |-> worker[r].total,
                    company |-> company_name(worker[r].idx + 1),
                    website |-> RowWebsite(worker[r].input, worker[r].idx + 1) ]) ]
  /\ Goto(r, "scrape")
  /\ UNCHANGED << req, outFile >>
  /\ UNCHANGED << scrape, web, stream >>

\* Scrape without the except clause of app.py:261: the failure propagates.
ScrapePropagates(r) ==
  /\ worker[r].pc = "scrape"
  /\ \E env \in CrawlEnvs :
       /\ worker[r].input.blank => env.fail \in { "new_page", "goto" }
       /\ IF env.fail \in CrawlFailures
            THEN worker' = [ worker EXCEPT ![r] =
                   [ @ EXCEPT !.pc = "exc_status", !.crawl = CrawlEnd(env),
                              !.e = "crawl failed" ] ]
            ELSE worker' = [ worker EXCEPT ![r] =
                   [ @ EXCEPT !.pc = "append",
                      !.crawl = CrawlEnd(env),
                      !.result = scrape_company(company_name(worker[r].idx + 1),
                                   RowWebsite(worker[r].input, worker[r].idx + 1),
                                   env) ] ]
  /\ UNCHANGED << job, req, outFile >>
  /\ UNCHANGED << scrape, web, stream >>

\* server.py:242: app.scrape_company, which pushes no event.  An empty
\* website cell is no URL: page.goto raises if new_page did not.
Scrape(r) ==
  /\ worker[r].pc = "scrape"
  /\ \E env \in CrawlEnvs :
       /\ worker[r].input.blank => env.fail \in { "new_page", "goto" }
       /\ worker' = [ worker EXCEPT ![r] =
            [ @ EXCEPT !.pc = "append",
                 !.crawl = CrawlEnd(env),
                 !.result = scrape_company(company_name(worker[r].idx + 1),
                              RowWebsite(worker[r].input, worker[r].idx + 1),
                              env) ] ]
  /\ UNCHANGED << job, req, outFile >>
  /\ UNCHANGED << scrape, web, stream >>

\* server.py:243
AppendResult(r) ==
  /\ worker[r].pc = "append"
  /\ job' = [ job EXCEPT !.results = Append(job.results, worker[r].result) ]
  /\ Goto(r, "save")
  /\ UNCHANGED << req, outFile >>
  /\ UNCHANGED << scrape, web, stream >>

\* server.py:247: DataFrame(results).reindex(columns=OUTPUT_COLUMNS)
Reindex(results) ==
  [ i \in 1 .. Len(results) |-> [ c \in Columns |-> results[i][c] ] ]

\* Save without the try/except of lines 246-250: a failed write propagates.
SaveRaises(r) ==
  /\ worker[r].pc = "save"
  /\ \/ /\ outFile' = [ exists |-> TRUE, rows |-> Reindex(job.results) ]
        /\ worker' = [ worker EXCEPT ![r] =
             [ @ EXCEPT !.pc = "push_company_done", !.saved = TRUE ] ]
     \/ /\ outFile' = outFile
        /\ Raise(r, "to_excel failed")
  /\ UNCHANGED << job, req >>
  /\ UNCHANGED << scrape, web, stream >>

\* server.py:245-250: to_excel may raise; the except clause passes.
Save(r) ==
  /\ worker[r].pc = "save"
  /\ \/ /\ outFile' = [ exists |-> TRUE, rows |-> Reindex(job.results) ]
        /\ worker' = [ worker EXCEPT ![r] =
             [ @ EXCEPT !.pc = "push_company_done", !.saved = TRUE ] ]
     \/ /\ outFile' = outFile
        /\ worker' = [ worker EXCEPT ![r] =
             [ @ EXCEPT !.pc = "push_company_done", !.saved = FALSE ] ]
  /\ UNCHANGED << job, req >>
  /\ UNCHANGED << scrape, web, stream >>

\* server.py:252-257, then the loop goes to the next row
PushCompanyDone(r) ==
  /\ worker[r].pc = "push_company_done"
  /\ job' = [ job EXCEPT !.events =
                push_event(job.events, "company_done",
                  [ index |-> worker[r].idx + 1, total |-> worker[r].total,
                    company |-> company_name(worker[r].idx + 1),
                    result |-> worker[r].result ]) ]
  /\ worker' = [ worker EXCEPT ![r] =
       [ @ EXCEPT !.pc = "loop", !.idx = @ + 1, !.crawl = "", !.result = Null,
                  !.saved = FALSE ] ]
  /\ UNCHANGED << req, outFile >>
  /\ UNCHANGED << scrape, web, stream >>

\* server.py:259: after the last row; browser.close may raise.
CloseBrowser(r) ==
  /\ worker[r].pc = "loop"
  /\ worker[r].idx >= worker[r].total
  /\ \/ Goto(r, "push_done")
     \/ Raise(r, "close failed")
  /\ UNCHANGED << job, req, outFile >>
  /\ UNCHANGED << scrape, web, stream >>

\* server.py:261-264
PushDone(r) ==
  /\ worker[r].pc = "push_done"
  /\ job' = [ job EXCEPT !.events =
                push_event(job.events, "done",
                  [ total |-> worker[r].total, output_file |-> "output.xlsx" ]) ]
  /\ Goto(r, "set_done")
  /\ UNCHANGED << req, outFile >>
  /\ UNCHANGED << scrape, web, stream >>

\* server.py:265
SetDone(r) ==
  /\ worker[r].pc = "set_done"
  /\ job' = [ job EXCEPT !.status = "done" ]
  /\ Goto(r, "end")
  /\ UNCHANGED << req, outFile >>
  /\ UNCHANGED << scrape, web, stream >>

\* server.py:272-273
ExcStatus(r) ==
  /\ worker[r].pc = "exc_status"
  /\ job' = [ job EXCEPT !.status = "error" ]
  /\ Goto(r, "exc_error")
  /\ UNCHANGED << req, outFile >>
  /\ UNCHANGED << scrape, web, stream >>

\* server.py:274
ExcError(r) ==
  /\ worker[r].pc = "exc_error"
  /\ job' = [ job EXCEPT !.error = worker[r].e ]
  /\ Goto(r, "exc_event")
  /\ UNCHANGED << req, outFile >>
  /\ UNCHANGED << scrape, web, stream >>

\* server.py:275
ExcEvent(r) ==
  /\ worker[r].pc = "exc_event"
  /\ job' = [ job EXCEPT !.events =
                push_event(job.events, "error", [ message |-> worker[r].e ]) ]
  /\ Goto(r, "end")
  /\ UNCHANGED << req, outFile >>
  /\ UNCHANGED << scrape, web, stream >>

Next ==
  \E r \in Requests :
    \/ UploadCheck(r)
    \/ UploadAccept(r)
    \/ ReadInput(r)
    \/ SetResults(r)
    \/ PushStart(r)
    \/ Launch(r)
    \/ SetCurrent(r)
    \/ SetCompany(r)
    \/ PushCompanyStart(r)
    \/ Scrape(r)
    \/ AppendResult(r)
    \/ Save(r)
    \/ PushCompanyDone(r)
    \/ CloseBrowser(r)
    \/ PushDone(r)
    \/ SetDone(r)
    \/ ExcStatus(r)
    \/ ExcError(r)
    \/ ExcEvent(r)

Spec == Init /\ [][Next]_vars

(***************************************************************************)
(* scrape_company step by step, app.py:94-271.  One step is one awaited    *)
(* call of the browser or of the LLM service together with the code that   *)
(* follows it up to the next awaited call.                                 *)
(***************************************************************************)
serverVars == << job, req, worker, outFile, stream >>

\* app.py:261-263: the except clause prints, then the finally block runs.
Fail(stage) ==
  scrape' = [ scrape EXCEPT !.pc = "close", !.fail = stage, !.end = "failed" ]

\* app.py:118
NewPage ==
  /\ scrape.pc = "new_page"
  /\ \/ /\ scrape' = [ scrape EXCEPT !.pc = "goto", !.page = TRUE ]
        /\ web' = [ web EXCEPT !.opened = @ + 1, !.unclosed = @ + 1 ]
     \/ /\ Fail("new_page")
        /\ web' = web
  /\ UNCHANGED serverVars

\* app.py:121: the homepage loads with some anchors, or goto raises.
GotoHome ==
  /\ scrape.pc = "goto"
  /\ \/ /\ scrape' = [ scrape EXCEPT !.pc = "cookies" ]
        /\ \E anchors \in AnchorLists : web' = [ web EXCEPT !.dom = anchors ]
     \/ /\ Fail("goto")
        /\ web' = web
  /\ UNCHANGED serverVars

\* app.py:127-136: a cookie button is clicked or not; a failure is passed.
Cookies ==
  /\ scrape.pc = "cookies"
  /\ scrape' = [ scrape EXCEPT !.pc = "inner_text" ]
  /\ UNCHANGED << web, serverVars >>

\* app.py:141
HomeText ==
  /\ scrape.pc = "inner_text"
  /\ \/ scrape' = [ scrape EXCEPT !.pc = "count", !.all_text = << Target >> ]
     \/ Fail("inner_text")
  /\ UNCHANGED << web, serverVars >>

\* app.py:146-150: links.count() is awaited outside the try of line 153.
CountLinks ==
  /\ scrape.pc = "count"
  /\ \/ scrape' = [ scrape EXCEPT !.pc = "anchor", !.link_count = Len(web.dom),
                                  !.i = 0, !.candidate_links = << >> ]
     \/ Fail("links_count")
  /\ UNCHANGED << web, serverVars >>

\* app.py:152-178
ReadAnchor ==
  /\ scrape.pc = "anchor"
  /\ scrape.i < scrape.link_count
  /\ scrape' = [ scrape EXCEPT
       !.candidate_links = LinkStep(@, web.dom[scrape.i + 1]),
       !.i = @ + 1 ]
  /\ UNCHANGED << web, serverVars >>

\* app.py:181-183
SortLinks ==
  /\ scrape.pc = "anchor"
  /\ scrape.i >= scrape.link_count
  /\ scrape' = [ scrape EXCEPT !.pc = "visit",
                               !.candidate_links = sorted(@),
                               !.visited = {}, !.k = 0 ]
  /\ UNCHANGED << web, serverVars >>

\* app.py:188, len(candidate_links[:3])
Selected == Min(TraversalCap, Len(scrape.candidate_links))

\* Visit without the test of line 190.
VisitAgain ==
  /\ scrape.pc = "visit"
  /\ scrape.k < Selected
  /\ LET url == scrape.candidate_links[scrape.k + 1].url
     IN  \E ok \in BOOLEAN :
           /\ scrape' = [ scrape EXCEPT
                !.k = @ + 1, !.visited = @ \cup { url },
                !.all_text = IF ok THEN Append(@, url) ELSE @ ]
           /\ web' = [ web EXCEPT !.dom = << >>,
                !.visits = Append(@, [ url |-> url, ok |-> ok ]) ]
  /\ UNCHANGED serverVars

\* Visit without the try of line 195: a failing sub-page ends the crawl.
VisitAborts ==
  /\ scrape.pc = "visit"
  /\ scrape.k < Selected
  /\ LET url == scrape.candidate_links[scrape.k + 1].url
     IN  IF url \in scrape.visited
           THEN /\ scrape' = [ scrape EXCEPT !.k = @ + 1 ]
                /\ web' = web
           ELSE \E ok \in BOOLEAN :
                  /\ IF ok
                       THEN scrape' = [ scrape EXCEPT
                              !.k = @ + 1, !.visited = @ \cup { url },
                              !.all_text = Append(@, url) ]
                       ELSE scrape' = [ scrape EXCEPT
                              !.pc = "close", !.fail = "sub_page", !.end = "failed",
                              !.visited = @ \cup { url } ]
                  /\ web' = [ web EXCEPT !.dom = << >>,
                       !.visits = Append(@, [ url |-> url, ok |-> ok ]) ]
  /\ UNCHANGED serverVars

\* app.py:188-205, one pass of the loop: goto or inner_text of the sub-page
\* may raise (ok = FALSE), and the except clause continues.
Visit ==
  /\ scrape.pc = "visit"
  /\ scrape.k < Selected
  /\ LET url == scrape.candidate_links[scrape.k + 1].url
     IN  IF url \in scrape.visited
           THEN /\ scrape' = [ scrape EXCEPT !.k = @ + 1 ]
                /\ web' = web
           ELSE \E ok \in BOOLEAN :
                  /\ scrape' = [ scrape EXCEPT
                       !.k = @ + 1, !.visited = @ \cup { url },
                       !.all_text = IF ok THEN Append(@, url) ELSE @ ]
                  /\ web' = [ web EXCEPT !.dom = << >>,
                       !.visits = Append(@, [ url |-> url, ok |-> ok ]) ]
  /\ UNCHANGED serverVars

\* app.py:208-217.  Collapsing white space leaves the bodies as they are.
Extract ==
  /\ scrape.pc = "visit"
  /\ scrape.k >= Selected
  /\ scrape' = [ scrape EXCEPT !.pc = "llm",
       !.result = Extracted(@, [ fail |-> "none", found |-> Found(scrape.all_text),
                                 report |-> FALSE ]) ]
  /\ UNCHANGED << web, serverVars >>

\* Llm without the test of llm_utils.py:127-135.
LlmUnchecked ==
  /\ scrape.pc = "llm"
  /\ \E answer \in LlmAnswers :
       /\ scrape' = [ scrape EXCEPT !.pc = "parse", !.raw_json = Content(answer) ]
       /\ web' = [ web EXCEPT !.posts = @ + 1,
                              !.llm = IF web.configured THEN answer ELSE "unconfigured" ]
  /\ UNCHANGED serverVars

\* app.py:223-227 and llm_utils.py:127-167: preprocess_about_with_llm returns
\* None without a request when the key or the model name is not set, and
\* None when the request raises, the status is an error or the content empty.
Llm ==
  /\ scrape.pc = "llm"
  /\ IF ~ web.configured
       THEN /\ scrape' = [ scrape EXCEPT !.pc = "parse", !.raw_json = Null ]
            /\ web' = [ web EXCEPT !.llm = "unconfigured" ]
       ELSE \E answer \in LlmAnswers :
              /\ scrape' = [ scrape EXCEPT !.pc = "parse", !.raw_json = Content(answer) ]
              /\ web' = [ web EXCEPT !.posts = @ + 1, !.llm = answer ]
  /\ UNCHANGED serverVars

\* app.py:229-259
Parse ==
  /\ scrape.pc = "parse"
  /\ scrape' = [ scrape EXCEPT !.pc = "close", !.end = "complete",
       !.result = Enriched(@, [ fail |-> "none", found |-> FALSE,
                   report |-> scrape.raw_json # Null
                              /\ json_loads(scrape.raw_json) = "dict" ]) ]
  /\ UNCHANGED << web, serverVars >>

\* Close with the close skipped when the crawl ended in the except clause.
CloseOnSuccess ==
  /\ scrape.pc = "close"
  /\ scrape' = [ scrape EXCEPT !.pc = "return" ]
  /\ IF scrape.page /\ scrape.end = "complete"
       THEN \E ok \in BOOLEAN :
              web' = [ web EXCEPT !.closes = @ + 1, !.unclosed = @ - 1,
                                  !.close_failed = ~ ok ]
       ELSE web' = web
  /\ UNCHANGED serverVars

\* app.py:263-271: page.close() may raise, and the except clause passes.
Close ==
  /\ scrape.pc = "close"
  /\ scrape' = [ scrape EXCEPT !.pc = "return" ]
  /\ IF scrape.page
       THEN \E ok \in BOOLEAN :
              web' = [ web EXCEPT !.closes = @ + 1, !.unclosed = @ - 1,
                                  !.close_failed = ~ ok ]
       ELSE web' = web
  /\ UNCHANGED serverVars

\* server.py:227-242: the caller's loop awaits the call for the next row.
NextCompany ==
  /\ scrape.pc = "return"
  /\ scrape' = ScrapeInit
  /\ web' = [ WebInit(web.configured) EXCEPT !.unclosed = web.unclosed ]
  /\ UNCHANGED serverVars

CrawlInit ==
  /\ job = JobInit
  /\ req = [ r \in Requests |-> ReqInit ]
  /\ worker = [ r \in Requests |-> WorkerInit ]
  /\ outFile = [ exists |-> FALSE, rows |-> << >> ]
  /\ stream = StreamInit
  /\ scrape = ScrapeInit
  /\ \E configured \in BOOLEAN : web = WebInit(configured)

CrawlNext ==
  \/ NewPage
  \/ GotoHome
  \/ Cookies
  \/ HomeText
  \/ CountLinks
  \/ ReadAnchor
  \/ SortLinks
  \/ Visit
  \/ Extract
  \/ Llm
  \/ Parse
  \/ Close
  \/ NextCompany

SpecCrawl == CrawlInit /\ [][CrawlNext]_vars

(***************************************************************************)
(* Properties.                                                             *)
(***************************************************************************)
Last(seq) == seq[Len(seq)]

\* A request takes its first step: the read of job["status"] at line 291.
Checks(r) == req[r].pc = "new" /\ req'[r].pc # "new"

\* A request is accepted: the job.update of line 318.
Accepts(r) == req[r].pc = "reset" /\ req'[r].pc = "ret"

\* The worker of request r is inside run_scraper_async.
InRun(r) == worker[r].pc \notin { "none", "exc_status", "exc_error", "exc_event", "end" }

\* C1: a submission that observes status `running` is answered 409, changes
\* no field of the job, writes nothing and starts no worker, then or later.
C1_ConflictLeavesJob ==
  [][ \A r \in Requests :
        /\ (Checks(r) /\ job.status = "running")
             => /\ req'[r].pc = "ret"
                /\ req'[r].resp = 409
                /\ job' = job
                /\ worker' = worker
                /\ outFile' = outFile
        /\ req[r].resp = 409 => (req'[r] = req[r] /\ worker'[r] = WorkerInit)
    ]_vars

\* C1: a request was rejected with 409 while a run had made progress.
C1_Witness ==
  \E r \in Requests :
    /\ req[r].resp = 409
    /\ job.status = "running"
    /\ Len(job.events) >= 2
    /\ Len(job.results) >= 1

\* C2: at most one worker executes run_scraper_async at any time.
C2_OneActiveRun ==
  Cardinality({ r \in Requests : InRun(r) }) <= 1

\* C3: a valid submission that observes `idle`, `done` or `error` is accepted,
\* and the accepting step leaves results and events empty, error null, total
\* and current 0, a new identifier and status `running`.
C3_AcceptResets ==
  [][ \A r \in Requests :
        /\ (Checks(r) /\ job.status \in { "idle", "done", "error" }
                      /\ ValidUpload(req'[r].file))
             => req'[r].pc = "reset"
        /\ req[r].pc = "reset" => Accepts(r) \/ req'[r] = req[r]
        /\ Accepts(r)
             => /\ req'[r].resp = 200
                /\ job'.results = << >>
                /\ job'.events = << >>
                /\ job'.error = Null
                /\ job'.total = 0
                /\ job'.current = 0
                /\ job'.status = "running"
                /\ job'.id # Null
                /\ job'.id # job.id
                /\ worker[r].pc = "none" /\ worker'[r].pc = "read_excel"
    ]_vars

\* C3: a submission has just been accepted after an earlier run ended and
\* left results behind in the output table.
C3_Witness ==
  \E r, q \in Requests :
    /\ q # r
    /\ worker[q].pc = "end"
    /\ outFile.exists /\ Len(outFile.rows) >= 1
    /\ req[r].resp = 200
    /\ worker[r].pc = "read_excel"
    /\ job.id = JobIds[r]
    /\ job.events = << >>
    /\ job.results = << >>

\* C4: status becomes `running` only by an accepted submission, leaves
\* `running` only for `done` or `error`, never returns to `idle`, and once
\* `done` or `error` changes only by an accepted submission.
C4_Lifecycle ==
  [][ /\ (job'.status = "running" /\ job.status # "running")
           => \E r \in Requests : Accepts(r)
      /\ (job.status = "running" /\ job'.status # "running")
           => job'.status \in { "done", "error" }
      /\ job'.status = "idle" => job.status = "idle"
      /\ (job.status \in { "done", "error" } /\ job'.status # job.status)
           => \E r \in Requests : Accepts(r)
    ]_vars

\* What identifies an event in the log: its type and, for the two
\* per-company events, the 1-based index of the company.
EventShape(ev) ==
  << ev.type,
     IF ev.type \in { "company_start", "company_done" } THEN ev.data.index ELSE 0 >>

EventShapes(events) == [ k \in 1 .. Len(events) |-> EventShape(events[k]) ]

RECURSIVE CompanyShapes(_)
CompanyShapes(n) ==
  IF n = 0 THEN << >>
  ELSE CompanyShapes(n - 1) \o << << "company_start", n >>, << "company_done", n >> >>

\* start, company_start(1), company_done(1), ..., company_done(n), done
ExpectedLog(n) == << << "start", 0 >> >> \o CompanyShapes(n) \o << << "done", 0 >> >>

\* The worker of request r ran to the end of run_scraper_async.
Completed(r) == worker[r].pc = "end" /\ worker[r].e = Null

\* C5: a run over n targets that completes leaves exactly the log start,
\* company_start(1), company_done(1), ..., company_done(n), done; results has
\* i entries when company_done(i) is appended; and status `done` comes with
\* the done event last in the log and n results.
C5_CompletedRunLog ==
  /\ \A r \in Requests :
       /\ (worker[r].pc = "push_company_done" /\ job.id = JobIds[r])
            => Len(job.results) = worker[r].idx + 1
       /\ (Completed(r) /\ job.id = JobIds[r])
            => /\ EventShapes(job.events) = ExpectedLog(worker[r].total)
               /\ Len(job.results) = worker[r].total
  /\ job.status = "done"
       => /\ job.events # << >>
          /\ Last(job.events).type = "done"
          /\ Len(job.results) = Last(job.events).data.total

\* C6: when an error escapes the run, the worker ends with status `error`,
\* its message in `error` and the error event last in the log, the results
\* appended before the failure are kept, and it appends nothing afterwards.
C6_EscapedError ==
  [][ \A r \in Requests :
        /\ (worker[r].pc = "exc_event" /\ worker'[r].pc = "end")
             => /\ job'.status = "error"
                /\ job'.error = worker[r].e
                /\ Last(job'.events) = [ type |-> "error", data |-> [ message |-> worker[r].e ] ]
                /\ job'.results = job.results
        /\ (worker[r].pc \in { "exc_status", "exc_error" } /\ worker'[r] # worker[r])
             => job'.results = job.results
        /\ worker[r].pc = "end" => worker'[r] = worker[r]
    ]_vars

C8_DoneMeansPersisted ==
  \A r \in Requests :
    (worker[r].pc = "push_company_done" /\ worker[r].saved)
      => /\ outFile.exists
         /\ Len(outFile.rows) >= worker[r].idx + 1
         /\ \A i \in 1 .. worker[r].idx + 1 :
              outFile.rows[i]["Company Name"] = company_name(i)

\* C9: a crawl that fails at new_page, goto or inner_text returns the result
\* with only Company Name and Website set; the worker appends that result,
\* reports it in company_done and goes on to the next row, and none of these
\* steps changes the job status.
C9_CompanyFailureIsLocal ==
  [][ \A r \in Requests :
        LET w == worker[r]
            i == w.idx + 1
        IN  /\ (w.pc = "scrape" /\ worker'[r].crawl = "failed")
                 => /\ worker'[r].pc = "append"
                    /\ worker'[r].result =
                         InitialResult(company_name(i), RowWebsite(w.input, i))
                    /\ job' = job
            /\ (w.crawl = "failed" /\ w.pc = "append" /\ worker'[r] # w)
                 => /\ job'.results = Append(job.results, w.result)
                    /\ job'.status = job.status
                    /\ worker'[r].pc = "save"
            /\ (w.crawl = "failed" /\ w.pc = "save" /\ worker'[r] # w)
                 => /\ job' = job
                    /\ worker'[r].pc = "push_company_done"
            /\ (w.crawl = "failed" /\ w.pc = "push_company_done" /\ worker'[r] # w)
                 => /\ Last(job'.events).type = "company_done"
                    /\ Last(job'.events).data.index = i
                    /\ Last(job'.events).data.result =
                         InitialResult(company_name(i), RowWebsite(w.input, i))
                    /\ job'.status = job.status
                    /\ worker'[r].pc = "loop"
                    /\ worker'[r].idx = i
    ]_vars

\* C9: the first company's crawl failed, its all-null result is in results
\* and in its company_done event, and the run is at the second company.
C9_Witness ==
  \E r \in Requests :
    /\ worker[r].pc = "scrape"
    /\ worker[r].idx = 1
    /\ job.status = "running"
    /\ Len(job.results) = 1
    /\ job.results[1] = InitialResult(company_name(1), website(1))
    /\ Len(job.events) = 4
    /\ job.events[3].type = "company_done"
    /\ job.events[3].data.result = InitialResult(company_name(1), website(1))
    /\ job.events[4].type = "company_start"
    /\ job.events[4].data.index = 2

\* C10: a failure inside a company crawl is in the event log as a step event
\* of that company, after its company_start, when its company_done is due.
C10_FailureLoggedAsStep ==
  \A r \in Requests :
    (worker[r].pc = "push_company_done" /\ worker[r].crawl = "failed")
      => \E k \in 1 .. Len(job.events) :
           /\ job.events[k].type = "step"
           /\ job.events[k].data.company = company_name(worker[r].idx + 1)

(***************************************************************************)
(* GET /progress, server.py:337-358: one client and its generator.  The    *)
(* events it yields are kept in stream.sent, each with the job it was read *)
(* from and its index in that job's log.                                   *)
(***************************************************************************)
\* Python: events[k:]
SliceFrom(events, k) ==
  IF k >= Len(events) THEN << >> ELSE SubSeq(events, k + 1, Len(events))

\* server.py:338-341: the request arrives and the generator starts.
StreamOpen ==
  /\ stream.pc = "closed"
  /\ stream' = [ pc |-> "poll", last_idx |-> 0, sent |-> << >> ]
  /\ UNCHANGED << job, req, worker, outFile, scrape, web >>

\* server.py:344-349: the new events are yielded and the cursor advances.
StreamPoll ==
  /\ stream.pc = "poll"
  /\ LET new_events == SliceFrom(job.events, stream.last_idx)
     IN  stream' = [ stream EXCEPT
           !.pc = "status",
           !.sent = @ \o [ j \in 1 .. Len(new_events) |->
                           [ id |-> job.id, idx |-> stream.last_idx + j,
                             ev |-> new_events[j] ] ],
           !.last_idx = @ + Len(new_events) ]
  /\ UNCHANGED << job, req, worker, outFile, scrape, web >>

\* server.py:352, the left operand of `and`; line 355 sleeps and loops.
StreamStatus ==
  /\ stream.pc = "status"
  /\ stream' = [ stream EXCEPT
       !.pc = IF job.status \in { "done", "error" } THEN "len" ELSE "poll" ]
  /\ UNCHANGED << job, req, worker, outFile, scrape, web >>

\* server.py:352-353, the right operand of `and`, and the break.
StreamLen ==
  /\ stream.pc = "len"
  /\ stream' = [ stream EXCEPT
       !.pc = IF stream.last_idx >= Len(job.events) THEN "ended" ELSE "poll" ]
  /\ UNCHANGED << job, req, worker, outFile, scrape, web >>

\* A POST /upload whose file, if it has one, has no rows.
UploadCheckEmpty(r) == UploadCheck(r) /\ req'[r].file.n = 0

\* The server with a client of GET /progress; the uploaded tables have no
\* rows, so a run is read, start, launch, close and done, or an error.
StreamNext ==
  \/ \E r \in Requests :
       \/ UploadCheckEmpty(r)
       \/ UploadAccept(r)
       \/ ReadInput(r)
       \/ SetResults(r)
       \/ PushStart(r)
       \/ Launch(r)
       \/ CloseBrowser(r)
       \/ PushDone(r)
       \/ SetDone(r)
       \/ ExcStatus(r)
       \/ ExcError(r)
       \/ ExcEvent(r)
  \/ StreamOpen
  \/ StreamPoll
  \/ StreamStatus
  \/ StreamLen

SpecStream == Init /\ [][StreamNext]_vars

\* The generator's thread is scheduled again and again.
SpecStreamFair ==
  SpecStream /\ WF_vars(StreamPoll) /\ WF_vars(StreamStatus) /\ WF_vars(StreamLen)

(***************************************************************************)
(* Properties of one company crawl, checked under SpecCrawl.               *)
(***************************************************************************)

\* C11: a crawl opens at most one page; a page that was opened has its close
\* attempted exactly once by the time the crawl returns, whether it ended in
\* the except clause or not; a close that raises does not stop the return;
\* so no page awaits its close attempt when the crawl of the next company
\* starts, and at most one page awaits it at any time.
C11_PageClosedOnce ==
  /\ web.opened <= 1
  /\ web.closes <= web.opened
  /\ web.unclosed <= 1
  /\ web.close_failed => scrape.pc = "return"
  /\ scrape.pc = "return" => web.closes = web.opened /\ web.unclosed = 0
  /\ scrape.pc = "new_page" => web.unclosed = 0

\* C11: a crawl that failed after its page was opened has returned, and the
\* one close it attempted raised.
C11_Witness ==
  /\ scrape.pc = "return"
  /\ scrape.end = "failed"
  /\ scrape.fail = "inner_text"
  /\ web.opened = 1
  /\ web.closes = 1
  /\ web.close_failed

\* C12: whatever the ranked candidate list, the traversal navigates to at
\* most three sub-page URLs and to none of them twice.
C12_TraversalBounded ==
  /\ Len(web.visits) <= TraversalCap
  /\ \A i, j \in 1 .. Len(web.visits) :
       i < j => web.visits[i].url # web.visits[j].url
  /\ \A i \in 1 .. Len(web.visits) : web.visits[i].url \in scrape.visited

\* C12: the traversal is over a list of four candidates whose first three
\* name one URL twice with different scores; two navigations were made.
C12_Witness ==
  /\ scrape.pc = "llm"
  /\ Len(scrape.candidate_links) = 4
  /\ \E i, j \in 1 .. TraversalCap :
       /\ i < j
       /\ scrape.candidate_links[i].url = scrape.candidate_links[j].url
       /\ scrape.candidate_links[i].score # scrape.candidate_links[j].score
  /\ Len(web.visits) = 2

\* The bodies of the visited sub-pages whose goto and inner_text succeeded.
RECURSIVE ServedBodies(_)
ServedBodies(visits) ==
  IF visits = << >> THEN << >>
  ELSE LET rest == ServedBodies(SubSeq(visits, 1, Len(visits) - 1))
           v == visits[Len(visits)]
       IN  IF v.ok THEN Append(rest, v.url) ELSE rest

\* C13: a sub-page that fails never aborts the aggregation: the text is the
\* homepage body followed by the bodies of the sub-pages that succeeded, in
\* the order of their rank, extraction works on that text, and a crawl that
\* visited sub-pages goes on to extraction and enrichment.
C13_SubPageFailureIsLocal ==
  /\ scrape.fail \in CrawlFailures \cup { "none" }
  /\ (scrape.pc \in { "visit", "llm", "parse" } \/ scrape.end = "complete")
       => scrape.all_text = << Target >> \o ServedBodies(web.visits)
  /\ scrape.pc \in { "llm", "parse" }
       => (scrape.result["About Us"] # Null
             <=> Found(<< Target >> \o ServedBodies(web.visits)))
  /\ (scrape.pc = "return" /\ Len(web.visits) > 0)
       => scrape.end = "complete" /\ web.llm # "none"

\* C13: three sub-pages were selected, the first and the third failed, and
\* the crawl returned with the facts of the second.
C13_Witness ==
  /\ scrape.pc = "return"
  /\ Len(web.visits) = 3
  /\ ~ web.visits[1].ok
  /\ web.visits[2].ok
  /\ ~ web.visits[3].ok
  /\ scrape.all_text = << Target, web.visits[2].url >>
  /\ scrape.result["About Us"] # Null

\* C14: every candidate of the link scorer has the host of the target.
C14_ForeignHostExcluded ==
  \A i \in 1 .. Len(scrape.candidate_links) :
    netloc(scrape.candidate_links[i].url) = netloc(Target)

EnrichmentFailures ==
  { "unconfigured", "unreachable", "http_error", "empty", "malformed", "array" }

\* C15: an enrichment failure never aborts the crawl: without configuration
\* no request is made, and when the service is not configured, unreachable,
\* answers with an error or with something that is not a JSON object, the
\* nine enrichment fields stay null, the extracted facts are kept, and the
\* crawl completes.
C15_EnrichmentFailureIsLocal ==
  /\ ~ web.configured => web.posts = 0
  /\ (scrape.pc \in { "close", "return" } /\ web.llm \in EnrichmentFailures)
       => /\ scrape.end = "complete"
          /\ \A c \in EnrichmentKeys : scrape.result[c] = Null
          /\ scrape.result =
               Extracted(InitialResult(company_name(1), website(1)),
                         [ fail |-> "none", found |-> Found(scrape.all_text),
                           report |-> FALSE ])

\* C15: the service answered with text that is no JSON, and the crawl
\* returned with the extracted facts and no enrichment.
C15_Witness ==
  /\ scrape.pc = "return"
  /\ web.llm = "malformed"
  /\ web.posts = 1
  /\ scrape.result["About Us"] # Null
  /\ scrape.result["company_overview"] = Null

\* C20: once the homepage text is captured, the crawl reaches extraction:
\* no failure of link discovery sends it to the except clause.
C20_LinkDiscoveryIsLocal ==
  (scrape.pc = "return" /\ scrape.all_text # << >>) => scrape.end = "complete"

\* The URLs of a ranked list in rank order, each once, those of `seen` left out.
RECURSIVE DistinctUrls(_, _)
DistinctUrls(ranked, seen) ==
  IF ranked = << >> THEN << >>
  ELSE IF ranked[1].url \in seen
    THEN DistinctUrls(Tail(ranked), seen)
    ELSE << ranked[1].url >> \o DistinctUrls(Tail(ranked), seen \cup { ranked[1].url })

\* C21: when the traversal is over, the URLs it navigated to are the first
\* min(3, k) of the k distinct candidate URLs other than the homepage, in
\* descending score order.
C21_TraversalTakesTopDistinct ==
  scrape.pc = "llm"
    => LET distinct == DistinctUrls(scrape.candidate_links, { Target })
       IN  [ i \in 1 .. Len(web.visits) |-> web.visits[i].url ]
             = SubSeq(distinct, 1, Min(TraversalCap, Len(distinct)))

(***************************************************************************)
(* Properties of the server, checked under Spec.                           *)
(***************************************************************************)

\* C16: a submission whose file lacks a required column, or has a row with
\* an empty required cell, is answered 400 and starts no worker.
C16_InvalidInputRejected ==
  \A r \in Requests :
    (req[r].pc # "new" /\ req[r].file.present
       /\ (~ req[r].file.cols \/ req[r].file.blank))
      => /\ req[r].pc = "ret"
         /\ req[r].resp = 400
         /\ worker[r].pc = "none"

IsPrefix(s, t) == Len(s) <= Len(t) /\ SubSeq(t, 1, Len(s)) = s

\* C17: a step that is not the reset of an accepted submission leaves every
\* entry of results and of events in place and at most appends to them.
C17_AppendOnly ==
  [][ (\A r \in Requests : ~ Accepts(r))
        => /\ IsPrefix(job.results, job'.results)
           /\ IsPrefix(job.events, job'.events)
    ]_vars

\* C19: `error` is set only while the status is `error`.
C19_ErrorOnlyInErrorStatus ==
  job.error # Null => job.status = "error"

\* C24: no run ends in the except clause because pd.read_excel could not
\* read the file its submission was accepted with.
C24_AcceptedInputIsRead ==
  \A r \in Requests : worker[r].e # "read_excel failed"

\* C25: what GET /status and GET /results read is consistent in every state:
\* len(results) <= current <= total, current - len(results) <= 1, and
\* current_company names target number `current` once current >= 1.
C25_SnapshotConsistent ==
  /\ Len(job.results) <= job.current
  /\ job.current <= job.total
  /\ job.current - Len(job.results) <= 1
  /\ job.current >= 1 => job.current_company = company_name(job.current)

(***************************************************************************)
(* Properties of the progress stream, checked under SpecStreamFair.        *)
(***************************************************************************)

\* Every request is answered and every worker has finished.
Quiet ==
  \A r \in Requests : req[r].pc = "ret" /\ worker[r].pc \in { "none", "end" }

\* Once every request is answered and the status is done or error, an open
\* stream ends.
StreamTerminates ==
  ((\A r \in Requests : req[r].pc = "ret")
     /\ job.status \in { "done", "error" } /\ stream.pc # "closed")
    ~> (stream.pc = "ended")

\* A stream ends only on a step that finds the status done or error.
StreamEndsOnTerminal ==
  [][ (stream.pc # "ended" /\ stream'.pc = "ended")
        => job.status \in { "done", "error" } ]_vars

\* C18: a stream that has ended, once the job is done or in error and all is
\* at rest, has delivered every event of the job's log.
C18_EndedStreamDeliveredAll ==
  (stream.pc = "ended" /\ Quiet /\ job.status \in { "done", "error" })
    => \A i \in 1 .. Len(job.events) :
         \E k \in 1 .. Len(stream.sent) :
           /\ stream.sent[k].id = job.id
           /\ stream.sent[k].idx = i
           /\ stream.sent[k].ev = job.events[i]

\* C22: a stream that has ended delivered a terminal event last: the done
\* event or the error event of the run.
C22_EndedStreamSawTerminalEvent ==
  stream.pc = "ended"
    => /\ stream.sent # << >>
       /\ Last(stream.sent).ev.type \in { "done", "error" }

\* C23: what a stream has delivered has no gap, no duplicate and is in the
\* order of emission, across the reset of an accepted submission too: every
\* event delivered is the first of its job's log or follows the delivery of
\* the event just before it in that log, and none is delivered twice.
C23_DeliveredInOrderNoGap ==
  /\ \A k \in 1 .. Len(stream.sent) :
       \/ stream.sent[k].idx = 1
       \/ /\ k > 1
          /\ stream.sent[k - 1].id = stream.sent[k].id
          /\ stream.sent[k - 1].idx = stream.sent[k].idx - 1
  /\ \A k, l \in 1 .. Len(stream.sent) :
       (stream.sent[k].id = stream.sent[l].id
          /\ stream.sent[k].idx = stream.sent[l].idx) => k = l

====
